---- MODULE Spec2Model ----
(***************************************************************************)
(* The join command of clusteradm (package join): Options.complete,        *)
(* Options.validate and Options.run, with the trust escalation of          *)
(* createClientcmdapiv1Config / setKubeconfig and the two watch-based      *)
(* waits of the rollout.  One behaviour is one invocation of the command.  *)
(***************************************************************************)
EXTENDS Integers, Sequences, FiniteSets, TLC

(* ---------------------------------------------------------------------- *)
(* Bounds of the model                                                     *)
(* ---------------------------------------------------------------------- *)
\* longest CA byte string the operator's file or the hub can hold
MaxCALen == 1
\* most events one watch stream delivers before it terminates
MaxEvents == 2
\* most status conditions a pod of an event carries
MaxConds == 2
\* largest value of the --timeout flag, in seconds
MaxTimeout == 2

(* ---------------------------------------------------------------------- *)
(* Values                                                                  *)
(* ---------------------------------------------------------------------- *)
\* a nil pointer / nil slice, and a set one
Nil == <<>>
Some(x) == <<x>>
IsNil(p) == p = <<>>
Deref(p) == p[1]

\* the empty Go string
Empty == ""

RECURSIVE SeqsUpTo(_, _)
SeqsUpTo(S, n) ==
    IF n = 0 THEN {<<>>}
    ELSE LET shorter == SeqsUpTo(S, n - 1)
         IN  shorter \cup {Append(s, x) : s \in {t \in shorter : Len(t) = n - 1}, x \in S}

ByteValues == {1}
CABytes == SeqsUpTo(ByteValues, MaxCALen)

ExternalHub == "https://hub.example:6443"
InternalHub == "https://kubernetes.default.svc"
LocalAPIServer == "https://managed.example:6443"
Token == "tok-123"

\* the errors the command can return (nil is NoErr)
NoErr == "nil"
ErrTokenMissing == "token is missing"
ErrHubServerMissing == "hub-server is missing"
ErrNameMissing == "name is missing"
ErrRegistryMissing == "the OCM image registry should not be empty"
ErrNotFound == "NotFound"
ErrNetwork == "NetworkError"
ErrVersion == "unable to retrieve version"
ErrReadFile == "ReadFileError"
ErrClient == "ClientConfigError"
ErrPreflight == "PreflightError"
ErrApply == "ApplyError"
ErrCRD == "CRDNotReady"
ErrTimeout == "TimeoutError"
ErrStream == "StreamError"
ErrWriteOutput == "WriteOutputError"

VARIABLES
    o,          \* the Options of the invocation (flags and derived fields)
    DryRun,     \* o.ClusteradmFlags.DryRun
    Timeout,    \* o.ClusteradmFlags.Timeout
    pc,         \* position of the invocation in complete / validate / run
    err,        \* the error the command returned, NoErr while none
    bootstrapExternalConfigUnSecure,  \* local of complete: the insecure credential
    externalClientUnSecure,           \* local of complete: the client built from it
    bootstrapConfig,                  \* local of createClientcmdapiv1Config
    calls,      \* the client calls issued so far, in order
    waits,      \* the watch of each wait started so far, in order
    phase,      \* the spinner cell of each wait
    spinner,    \* the state of each wait's spinner
    run         \* the state of Options.run: stages applied, output

vars == <<o, DryRun, Timeout, pc, err, bootstrapExternalConfigUnSecure,
          externalClientUnSecure, bootstrapConfig, calls, waits, phase,
          spinner, run>>

(* ---------------------------------------------------------------------- *)
(* Credentials and their serialized form                                   *)
(* ---------------------------------------------------------------------- *)
\* the fields of a clientcmdapiv1.Config that the join command sets
Config(server, insecure, ca, token) ==
    [Server |-> server, InsecureSkipTLSVerify |-> insecure,
     CertificateAuthorityData |-> ca, Token |-> token]

\* Create bootstrap with token but without CA
createExternalBootstrapConfig(opts) ==
    Config(opts.hubAPIServer, TRUE, <<>>, opts.token)

\* one key of the serialized kubeconfig: a text value or a byte value
Field(key, str, bytes) == [key |-> key, str |-> str, bytes |-> bytes]

\* yaml.Marshal of a *clientcmdapiv1.Config: the keys of the cluster and of
\* the auth info in the marshaller's (sorted) order; a key tagged omitempty
\* is left out when its value is the zero value
Marshal(cfgPtr) ==
    LET cfg == Deref(cfgPtr)
        caKey == IF cfg.CertificateAuthorityData = <<>> THEN <<>>
                 ELSE <<Field("certificate-authority-data", Empty,
                              cfg.CertificateAuthorityData)>>
        insecureKey == IF cfg.InsecureSkipTLSVerify
                       THEN <<Field("insecure-skip-tls-verify", "true", <<>>)>>
                       ELSE <<>>
        serverKey == <<Field("server", cfg.Server, <<>>)>>
        tokenKey == IF cfg.Token = Empty THEN <<>>
                    ELSE <<Field("token", cfg.Token, <<>>)>>
    IN  caKey \o insecureKey \o serverKey \o tokenKey

\* what a reader of the serialized kubeconfig finds under a key
HasKey(kubeconfig, key) == \E i \in 1..Len(kubeconfig) : kubeconfig[i].key = key
KeyOf(kubeconfig, key) ==
    kubeconfig[CHOOSE i \in 1..Len(kubeconfig) : kubeconfig[i].key = key]

\* what a client call answered: an address, CA bytes, or an error
Answer(server, ca, e) == [server |-> server, ca |-> ca, err |-> e]

\* a client call: the operation, the client it goes through, the credential
\* that client was built from, and the answer
Call(op, client, cfg, answer) ==
    [op |-> op, client |-> client, server |-> cfg.Server,
     insecure |-> cfg.InsecureSkipTLSVerify, answer |-> answer]
LocalCall(op) ==
    [op |-> op, client |-> "local", server |-> LocalAPIServer,
     insecure |-> FALSE, answer |-> Answer(Empty, <<>>, NoErr)]

(* ---------------------------------------------------------------------- *)
(* What the environment can answer                                         *)
(* ---------------------------------------------------------------------- *)
\* helpers.GetAPIServer: the server of the cluster-info config map, or an
\* error and no address
LookupResults ==
    {[server |-> InternalHub, err |-> NoErr],
     [server |-> Empty, err |-> ErrNotFound],
     [server |-> Empty, err |-> ErrNetwork]}

\* helpers.GetCACert: the CA bytes of the hub (possibly none), or an error
CAResults ==
    {[ca |-> b, err |-> NoErr] : b \in CABytes}
        \cup {[ca |-> <<>>, err |-> e] : e \in {ErrNotFound, ErrNetwork}}

\* os.ReadFile of the --ca-file: its content (possibly empty), or an error
ReadFileResults ==
    {[data |-> Some(b), err |-> NoErr] : b \in CABytes}
        \cup {[data |-> Nil, err |-> ErrReadFile]}

\* errors.IsNotFound
IsNotFound(e) == e = ErrNotFound

(* ---------------------------------------------------------------------- *)
(* Init: the command line of one invocation                                *)
(* ---------------------------------------------------------------------- *)
ZeroValues ==
    [ClusterName |-> Empty, Registry |-> Empty,
     Hub |-> [APIServer |-> Empty, KubeConfig |-> <<>>]]

Init ==
    /\ \E token \in {Empty, Token}, hub \in {Empty, ExternalHub},
          name \in {Empty, "cluster1"},
          registry \in {Empty, "quay.io/open-cluster-management"},
          caFile \in {Empty, "/ca.crt"}, force \in BOOLEAN, wait \in BOOLEAN :
            o = [token |-> token, hubAPIServer |-> hub, clusterName |-> name,
                 registry |-> registry, caFile |-> caFile,
                 forceHubInClusterEndpointLookup |-> force, wait |-> wait,
                 HubCADate |-> Nil, hubInClusterEndpoint |-> Empty,
                 HubConfig |-> Nil, values |-> ZeroValues]
    /\ DryRun \in BOOLEAN
    /\ Timeout \in 1..MaxTimeout
    /\ pc = "complete"
    /\ err = NoErr
    /\ bootstrapExternalConfigUnSecure = Nil
    /\ externalClientUnSecure = Nil
    /\ bootstrapConfig = Nil
    /\ calls = <<>>
    /\ waits = <<>>
    /\ phase = <<>>
    /\ spinner = <<>>
    /\ run = [applied |-> <<>>, output |-> <<>>, hint |-> FALSE, written |-> FALSE]

\* the command returns the error e
Return(e) ==
    /\ err' = e
    /\ pc' = "done"

(* ---------------------------------------------------------------------- *)
(* Options.complete                                                        *)
(* ---------------------------------------------------------------------- *)
\* a faulty variant of MissingInput: the registry is not checked
MissingInputNoRegistry(opts) ==
    IF opts.token = Empty THEN ErrTokenMissing
    ELSE IF opts.hubAPIServer = Empty THEN ErrHubServerMissing
    ELSE IF opts.clusterName = Empty THEN ErrNameMissing
    ELSE NoErr

\* the check of the required flags: the first missing one, or NoErr
MissingInput(opts) ==
    IF opts.token = Empty THEN ErrTokenMissing
    ELSE IF opts.hubAPIServer = Empty THEN ErrHubServerMissing
    ELSE IF opts.clusterName = Empty THEN ErrNameMissing
    ELSE IF opts.registry = Empty THEN ErrRegistryMissing
    ELSE NoErr

\* complete, from its entry to o.values = Values{...}
CompleteInputs ==
    /\ pc = "complete"
    /\ IF MissingInput(o) # NoErr
       THEN /\ Return(MissingInput(o))
            /\ UNCHANGED o
       ELSE /\ o' = [o EXCEPT !.values =
                        [ZeroValues EXCEPT !.ClusterName = o.clusterName,
                                           !.Hub.APIServer = o.hubAPIServer,
                                           !.Registry = o.registry]]
            /\ pc' = "version"
            /\ UNCHANGED err
    /\ UNCHANGED <<DryRun, Timeout, bootstrapExternalConfigUnSecure,
                   externalClientUnSecure, bootstrapConfig, calls, waits,
                   phase, spinner, run>>

\* version.GetVersionBundle(o.bundleVersion): a local table lookup that fails
\* on an unknown version
CompleteVersion ==
    /\ pc = "version"
    /\ \E known \in BOOLEAN :
        IF known THEN pc' = "cafile" /\ UNCHANGED err
        ELSE Return(ErrVersion)
    /\ UNCHANGED <<o, DryRun, Timeout, bootstrapExternalConfigUnSecure,
                   externalClientUnSecure, bootstrapConfig, calls, waits,
                   phase, spinner, run>>

\* if --ca-file is set, read ca data
CompleteReadCA ==
    /\ pc = "cafile"
    /\ IF o.caFile # Empty
       THEN \E r \in ReadFileResults :
              IF r.err # NoErr
              THEN Return(r.err) /\ UNCHANGED o
              ELSE /\ o' = [o EXCEPT !.HubCADate = r.data]
                   /\ pc' = "bootstrap"
                   /\ UNCHANGED err
       ELSE /\ pc' = "bootstrap"
            /\ UNCHANGED <<o, err>>
    /\ UNCHANGED <<DryRun, Timeout, bootstrapExternalConfigUnSecure,
                   externalClientUnSecure, bootstrapConfig, calls, waits,
                   phase, spinner, run>>

\* Create an unsecure bootstrap and the external client from it
CompleteBootstrap ==
    /\ pc = "bootstrap"
    /\ bootstrapExternalConfigUnSecure' = Some(createExternalBootstrapConfig(o))
    /\ \E built \in BOOLEAN :
        IF built
        THEN /\ externalClientUnSecure' = bootstrapExternalConfigUnSecure'
             /\ pc' = "lookup"
             /\ UNCHANGED err
        ELSE /\ Return(ErrClient)
             /\ UNCHANGED externalClientUnSecure
    /\ UNCHANGED <<o, DryRun, Timeout, bootstrapConfig, calls, waits, phase,
                   spinner, run>>

(* ---------------------------------------------------------------------- *)
(* Options.createClientcmdapiv1Config (the trust escalation)               *)
(* ---------------------------------------------------------------------- *)
\* a faulty variant of NeedsLookup: the flag is not consulted
NeedsLookupAlways(opts) == TRUE

\* if o.forceHubInClusterEndpointLookup
NeedsLookup(opts) == opts.forceHubInClusterEndpointLookup

\* a faulty variant of LookupFatal: the test of IsNotFound is inverted
LookupFatalInverted(e) == e # NoErr /\ IsNotFound(e)

\* if err != nil { if !errors.IsNotFound(err) { return nil, err } }
LookupFatal(e) == e # NoErr /\ ~IsNotFound(e)

\* a faulty variant of SecureCopy: InsecureSkipTLSVerify is left as it was
SecureCopyKeepsInsecure(cfg, hubAPIServer) == [cfg EXCEPT !.Server = hubAPIServer]

\* bootstrapExternalConfigUnSecure.DeepCopy() with InsecureSkipTLSVerify = false
\* and Server = o.hubAPIServer
SecureCopy(cfg, hubAPIServer) ==
    [cfg EXCEPT !.InsecureSkipTLSVerify = FALSE, !.Server = hubAPIServer]

\* a faulty variant of NeedsCAFetch: len(o.HubCADate) == 0 instead of nil
NeedsCAFetchWhenEmpty(opts) ==
    IF IsNil(opts.HubCADate) THEN TRUE ELSE Deref(opts.HubCADate) = <<>>

\* if o.HubCADate != nil { use it } else { fetch the CA from the hub }
NeedsCAFetch(opts) == IsNil(opts.HubCADate)

\* a faulty variant of WithCA: the CA is not stored
WithCADropped(cfg, ca) == cfg

\* bootstrapConfig.Clusters[0].Cluster.CertificateAuthorityData = ca
WithCA(cfg, ca) == [cfg EXCEPT !.CertificateAuthorityData = ca]

\* set hub in cluster endpoint
EscalateLookup ==
    /\ pc = "lookup"
    /\ IF NeedsLookup(o)
       THEN \E r \in LookupResults :
              /\ calls' = Append(calls, Call("GetAPIServer", "externalClientUnSecure",
                                             Deref(externalClientUnSecure),
                                             Answer(r.server, <<>>, r.err)))
              /\ IF LookupFatal(r.err)
                 THEN /\ Return(r.err)
                      /\ o' = [o EXCEPT !.hubInClusterEndpoint = r.server,
                                        !.HubConfig = Nil]
                 ELSE /\ o' = [o EXCEPT !.hubInClusterEndpoint = r.server]
                      /\ pc' = "derive"
                      /\ UNCHANGED err
       ELSE /\ pc' = "derive"
            /\ UNCHANGED <<o, err, calls>>
    /\ UNCHANGED <<DryRun, Timeout, bootstrapExternalConfigUnSecure,
                   externalClientUnSecure, bootstrapConfig, waits, phase,
                   spinner, run>>

\* a faulty variant of EscalateDerive: no deep copy, the secure credential
\* shares its cluster entry with the insecure one
EscalateDeriveAliased ==
    /\ pc = "derive"
    /\ bootstrapConfig' =
         Some(SecureCopy(Deref(bootstrapExternalConfigUnSecure), o.hubAPIServer))
    /\ bootstrapExternalConfigUnSecure' = bootstrapConfig'
    /\ pc' = "ca"
    /\ UNCHANGED <<o, DryRun, Timeout, err, externalClientUnSecure, calls, waits,
                   phase, spinner, run>>

\* the secure credential is derived on a deep copy of the insecure one
EscalateDerive ==
    /\ pc = "derive"
    /\ bootstrapConfig' =
         Some(SecureCopy(Deref(bootstrapExternalConfigUnSecure), o.hubAPIServer))
    /\ pc' = "ca"
    /\ UNCHANGED <<o, DryRun, Timeout, err, bootstrapExternalConfigUnSecure,
                   externalClientUnSecure, calls, waits, phase, spinner, run>>

\* a faulty variant of EscalateCA: a credential with an empty CA is refused
EscalateCARequiresCA ==
    /\ pc = "ca"
    /\ \E r \in IF NeedsCAFetch(o) THEN CAResults
                ELSE {[ca |-> Deref(o.HubCADate), err |-> NoErr]} :
        /\ IF NeedsCAFetch(o)
           THEN calls' = Append(calls, Call("GetCACert", "externalClientUnSecure",
                                            Deref(externalClientUnSecure),
                                            Answer(Empty, r.ca, r.err)))
           ELSE UNCHANGED calls
        /\ IF r.err # NoErr \/ r.ca = <<>>
           THEN /\ Return(IF r.err # NoErr THEN r.err ELSE "ConfigError")
                /\ o' = [o EXCEPT !.HubConfig = Nil]
                /\ UNCHANGED bootstrapConfig
           ELSE /\ bootstrapConfig' = Some(WithCA(Deref(bootstrapConfig), r.ca))
                /\ o' = [o EXCEPT !.HubConfig = bootstrapConfig']
                /\ pc' = "klusterlet"
                /\ UNCHANGED err
    /\ UNCHANGED <<DryRun, Timeout, bootstrapExternalConfigUnSecure,
                   externalClientUnSecure, waits, phase, spinner, run>>


\* the CA of the secure credential, and the return to complete, which stores
\* the result in o.HubConfig
EscalateCA ==
    /\ pc = "ca"
    /\ IF NeedsCAFetch(o)
       THEN \E r \in CAResults :
              /\ calls' = Append(calls, Call("GetCACert", "externalClientUnSecure",
                                             Deref(externalClientUnSecure),
                                             Answer(Empty, r.ca, r.err)))
              /\ IF r.err # NoErr
                 THEN /\ Return(r.err)
                      /\ o' = [o EXCEPT !.HubConfig = Nil]
                      /\ UNCHANGED bootstrapConfig
                 ELSE /\ bootstrapConfig' = Some(WithCA(Deref(bootstrapConfig), r.ca))
                      /\ o' = [o EXCEPT !.HubConfig = bootstrapConfig']
                      /\ pc' = "klusterlet"
                      /\ UNCHANGED err
       ELSE /\ bootstrapConfig' =
                 Some(WithCA(Deref(bootstrapConfig), Deref(o.HubCADate)))
            /\ o' = [o EXCEPT !.HubConfig = bootstrapConfig']
            /\ pc' = "klusterlet"
            /\ UNCHANGED <<err, calls>>
    /\ UNCHANGED <<DryRun, Timeout, bootstrapExternalConfigUnSecure,
                   externalClientUnSecure, waits, phase, spinner, run>>

\* get managed cluster externalServerURL: the client of the managed cluster
\* is built and asked for its own address, which only fills a template value
\* (o.values.Klusterlet.APIServer, "" on an error or an invalid host) that the
\* model does not keep
CompleteKlusterlet ==
    /\ pc = "klusterlet"
    /\ \E built \in BOOLEAN :
        IF ~built
        THEN /\ Return(ErrClient)
             /\ UNCHANGED calls
        ELSE /\ calls' = Append(calls, LocalCall("GetAPIServer"))
             /\ pc' = "validate"
             /\ UNCHANGED err
    /\ UNCHANGED <<o, DryRun, Timeout, bootstrapExternalConfigUnSecure,
                   externalClientUnSecure, bootstrapConfig, waits, phase,
                   spinner, run>>

(* ---------------------------------------------------------------------- *)
(* Options.validate and Options.setKubeconfig                              *)
(* ---------------------------------------------------------------------- *)
\* replace apiserver if the flag is set, then serialize o.HubConfig into
\* o.values.Hub.KubeConfig (yaml.Marshal of this struct does not fail, so the
\* error return of setKubeconfig is never taken)
setKubeconfig(opts) ==
    LET cfgPtr == IF opts.forceHubInClusterEndpointLookup
                  THEN Some([Deref(opts.HubConfig) EXCEPT
                                !.Server = opts.hubInClusterEndpoint])
                  ELSE opts.HubConfig
    IN  [opts EXCEPT !.HubConfig = cfgPtr,
                     !.values.Hub.KubeConfig = Marshal(cfgPtr)]

\* a faulty variant of Validate: setKubeconfig runs before the preflight check
ValidateSetsKubeconfigFirst ==
    /\ pc = "validate"
    /\ o' = setKubeconfig(o)
    /\ \E passed \in BOOLEAN :
        /\ calls' = Append(calls, Call("HubKubeconfigCheck", "HubConfig",
                                       Deref(o'.HubConfig),
                                       Answer(Empty, <<>>,
                                              IF passed THEN NoErr ELSE ErrPreflight)))
        /\ IF passed THEN pc' = "run" /\ UNCHANGED err
           ELSE Return(ErrPreflight)
    /\ UNCHANGED <<DryRun, Timeout, bootstrapExternalConfigUnSecure,
                   externalClientUnSecure, bootstrapConfig, waits, phase,
                   spinner, run>>

\* preflight check of o.HubConfig, then setKubeconfig
Validate ==
    /\ pc = "validate"
    /\ \E passed \in BOOLEAN :
        IF ~passed
        THEN /\ calls' = Append(calls, Call("HubKubeconfigCheck", "HubConfig",
                                            Deref(o.HubConfig),
                                            Answer(Empty, <<>>, ErrPreflight)))
             /\ Return(ErrPreflight)
             /\ UNCHANGED o
        ELSE /\ calls' = Append(calls, Call("HubKubeconfigCheck", "HubConfig",
                                            Deref(o.HubConfig),
                                            Answer(Empty, <<>>, NoErr)))
             /\ o' = setKubeconfig(o)
             /\ pc' = "run"
             /\ UNCHANGED err
    /\ UNCHANGED <<DryRun, Timeout, bootstrapExternalConfigUnSecure,
                   externalClientUnSecure, bootstrapConfig, waits, phase,
                   spinner, run>>

(* ---------------------------------------------------------------------- *)
(* Watch events and the readiness predicate of the two waits               *)
(* ---------------------------------------------------------------------- *)
ConditionTypes == {"Ready", "PodScheduled"}
ConditionStatuses == {"True", "False"}
PodPhases == {"Pending", "Running"}

\* the status conditions of a pod: at most one condition of each type; the
\* pods of the stream are scheduled ones, so only Ready varies. The order of
\* conditions of different types cannot change a search by type, so a pod
\* with both lists Ready last, where the search has to pass the other one
PodConditions ==
    {c \in SeqsUpTo([Type : ConditionTypes, Status : ConditionStatuses], MaxConds) :
        /\ \A i, j \in 1..Len(c) : c[i].Type = c[j].Type => i = j
        /\ \A i \in 1..Len(c) : c[i].Type # "Ready" => c[i].Status = "True"
        /\ Len(c) >= 2 => c[1].Type # "Ready"}

\* an event of the stream: its object is a pod, or something else (a Status)
PodEvents == [kind : {"Pod"}, phase : PodPhases, conditions : PodConditions]
OtherEvents == [kind : {"Status"}, phase : {Empty}, conditions : {<<>>}]
Events == PodEvents \cup OtherEvents

\* printer.GetSpinnerPodStatus: the text shown for a pod
GetSpinnerPodStatus(pod) == pod.phase

\* the copy of pod.Status.Conditions into []metav1.Condition
ConvertConditions(conditions) ==
    [i \in 1..Len(conditions) |->
        [Type |-> conditions[i].Type, Status |-> conditions[i].Status]]

\* meta.IsStatusConditionTrue: the first condition of the type has status True
IsStatusConditionTrue(conds, type) ==
    LET found == {i \in 1..Len(conds) : conds[i].Type = type}
    IN  /\ found # {}
        /\ conds[CHOOSE i \in found : \A j \in found : i <= j].Status = "True"

\* a faulty variant of operatorPredicate: any condition with status True
operatorPredicateAnyTrue(event) ==
    IF event.kind # "Pod" THEN FALSE
    ELSE \E i \in 1..Len(event.conditions) : event.conditions[i].Status = "True"

\* a faulty variant of operatorPredicate: satisfaction accumulates, a pod seen
\* running in two events in a row counts as ready
operatorPredicateAccumulates(event) ==
    IF event.kind # "Pod" THEN FALSE
    ELSE \/ IsStatusConditionTrue(ConvertConditions(event.conditions), "Ready")
         \/ /\ Len(waits) > 0
            /\ ~IsNil(waits[Len(waits)].last)
            /\ Deref(waits[Len(waits)].last).kind = "Pod"
            /\ Deref(waits[Len(waits)].last).phase = "Running"
            /\ event.phase = "Running"

\* the predicate of waitUntilRegistrationOperatorConditionIsTrue
operatorPredicate(event) ==
    IF event.kind # "Pod" THEN FALSE
    ELSE IsStatusConditionTrue(ConvertConditions(event.conditions), "Ready")

\* a faulty variant of klusterletPredicate: a pod with no Ready condition of
\* status False counts as ready
klusterletPredicateNotFalse(event) ==
    IF event.kind # "Pod" THEN FALSE
    ELSE ~\E i \in 1..Len(event.conditions) :
            /\ event.conditions[i].Type = "Ready"
            /\ event.conditions[i].Status = "False"

\* the predicate of waitUntilKlusterletConditionIsTrue
klusterletPredicate(event) ==
    IF event.kind # "Pod" THEN FALSE
    ELSE IsStatusConditionTrue(ConvertConditions(event.conditions), "Ready")

\* a faulty variant of StorePhase: the text is stored before the shape of the
\* object is looked at
StorePhaseAlways(cell, event) ==
    IF event.kind # "Pod" THEN event.kind ELSE GetSpinnerPodStatus(event)

\* a faulty variant of StorePhase: the first text stored is kept
StorePhaseOnce(cell, event) ==
    IF event.kind # "Pod" \/ cell # Empty THEN cell
    ELSE GetSpinnerPodStatus(event)

\* phase.Store(printer.GetSpinnerPodStatus(pod)), skipped for a non-pod
StorePhase(cell, event) ==
    IF event.kind # "Pod" THEN cell ELSE GetSpinnerPodStatus(event)

\* the two waits of run, in their order
WaitKinds == <<"operator", "agent">>
Namespace(which) ==
    IF which = "operator" THEN "open-cluster-management"
    ELSE "open-cluster-management-agent"
LabelSelector(which) ==
    IF which = "operator" THEN "app=klusterlet"
    ELSE "app=klusterlet-registration-agent"
Predicate(which, event) ==
    IF which = "operator" THEN operatorPredicate(event)
    ELSE klusterletPredicate(event)

(* ---------------------------------------------------------------------- *)
(* Options.run                                                             *)
(* ---------------------------------------------------------------------- *)
\* a faulty variant of WaitRequested: dry-run mode is not consulted
WaitRequestedIgnoresDryRun(opts, dryRun) == opts.wait

\* if o.wait && !o.ClusteradmFlags.DryRun
WaitRequested(opts, dryRun) == opts.wait /\ ~dryRun

\* helpers.GetClients and the applier built from them
RunClients ==
    /\ pc = "run"
    /\ \E built \in BOOLEAN :
        IF built THEN pc' = "applyDirectly" /\ UNCHANGED err
        ELSE Return(ErrClient)
    /\ UNCHANGED <<o, DryRun, Timeout, bootstrapExternalConfigUnSecure,
                   externalClientUnSecure, bootstrapConfig, calls, waits, phase,
                   spinner, run>>

\* a faulty variant of Apply: the error of the applier is dropped and run
\* goes on with the next stage
ApplyIgnoresError(at, stage, next) ==
    /\ pc = at
    /\ \E applied \in BOOLEAN :
        /\ run' = IF applied
                  THEN [run EXCEPT
                          !.applied = Append(@, [stage |-> stage, dryRun |-> DryRun,
                                                 kubeconfig |-> o.values.Hub.KubeConfig]),
                          !.output = Append(@, stage)]
                  ELSE run
        /\ pc' = next
        /\ UNCHANGED err
    /\ UNCHANGED <<o, DryRun, Timeout, bootstrapExternalConfigUnSecure,
                   externalClientUnSecure, bootstrapConfig, calls, waits, phase,
                   spinner>>

\* one applier stage: it renders its files with o.values and applies them
Apply(at, stage, next) ==
    /\ pc = at
    /\ \E applied \in BOOLEAN :
        IF applied
        THEN /\ run' = [run EXCEPT
                          !.applied = Append(@, [stage |-> stage, dryRun |-> DryRun,
                                                 kubeconfig |-> o.values.Hub.KubeConfig]),
                          !.output = Append(@, stage)]
             /\ pc' = next
             /\ UNCHANGED err
        ELSE /\ Return(ErrApply)
             /\ UNCHANGED run
    /\ UNCHANGED <<o, DryRun, Timeout, bootstrapExternalConfigUnSecure,
                   externalClientUnSecure, bootstrapConfig, calls, waits, phase,
                   spinner>>

RunApplyDirectly == Apply("applyDirectly", "ApplyDirectly", "applyDeployments")

RunApplyDeployments == Apply("applyDeployments", "ApplyDeployments", "crd")

\* wait.WaitUntilCRDReady, skipped in dry-run mode
RunCRDReady ==
    /\ pc = "crd"
    /\ IF ~DryRun
       THEN \E ready \in BOOLEAN :
              IF ready THEN pc' = "applyCustomResources" /\ UNCHANGED err
              ELSE Return(ErrCRD)
       ELSE pc' = "applyCustomResources" /\ UNCHANGED err
    /\ UNCHANGED <<o, DryRun, Timeout, bootstrapExternalConfigUnSecure,
                   externalClientUnSecure, bootstrapConfig, calls, waits, phase,
                   spinner, run>>

RunApplyCustomResources ==
    Apply("applyCustomResources", "ApplyCustomResources", "wait-operator")

\* the position after the wait `which`
AfterWait(which) == IF which = "operator" THEN "wait-agent" ELSE "finish"

\* a faulty variant of RunWaitReturned: the error of the wait is not checked
RunWaitIgnoresError(which, e) ==
    /\ pc' = AfterWait(which)
    /\ UNCHANGED err

\* a faulty variant of RunWaitReturned: run stops on the error of the wait but
\* returns nil
RunWaitReturnsNil(which, e) ==
    IF e # NoErr THEN Return(NoErr)
    ELSE /\ pc' = AfterWait(which)
         /\ UNCHANGED err

\* err = waitUntil...(); if err != nil { return err }: run returns the error
\* of the wait `which`, or goes on after it
RunWaitReturned(which, e) ==
    IF e # NoErr THEN Return(e)
    ELSE /\ pc' = AfterWait(which)
         /\ UNCHANGED err

\* a faulty variant of TimeoutSecondsOf: the time the earlier waits took is
\* taken off the timeout (one shared budget)
TimeoutSecondsRemaining(timeout) ==
    LET RECURSIVE Spent(_)
        Spent(n) == IF n = 0 THEN 0 ELSE waits[n].elapsed + Spent(n - 1)
        left == timeout - Spent(Len(waits))
    IN  IF left < 0 THEN 0 ELSE left

\* TimeoutSeconds: &timeout, with timeout = int64(o.ClusteradmFlags.Timeout)
TimeoutSecondsOf(timeout) == timeout

\* the watch of a wait whose client is built and whose spinner is started
NewWait(which) ==
    [which |-> which, namespace |-> Namespace(which),
     labelSelector |-> LabelSelector(which), timeoutSeconds |-> 0,
     opened |-> 0, open |-> FALSE, ended |-> "no", elapsed |-> 0,
     consumed |-> 0, last |-> Nil, outcome |-> "waiting"]

\* the wait in progress is the last one started
Cur == Len(waits)

\* a spinner after its deferred Stop: the status text is replaced by the
\* final message
Stopped == [state |-> "stopped", shown |-> Empty]

\* a faulty variant of Finished: the wait returns and leaves its watch open
FinishedLeavesOpen(wt, e) == [wt EXCEPT !.outcome = e]

\* the wait returns e (nil is NoErr): the deferred Stop closes the watch
Finished(wt, e) == [wt EXCEPT !.open = FALSE, !.outcome = e]

\* run reaches a wait: skipped unless requested; else the client is built,
\* the phase cell is created empty and the spinner is started
WaitStart(which) ==
    /\ pc = "wait-" \o which
    /\ IF ~WaitRequested(o, DryRun)
       THEN /\ pc' = AfterWait(which)
            /\ UNCHANGED <<err, waits, phase, spinner>>
       ELSE \E built \in BOOLEAN :
              IF ~built
              THEN /\ Return(ErrClient)
                   /\ UNCHANGED <<waits, phase, spinner>>
              ELSE /\ waits' = Append(waits, NewWait(which))
                   /\ phase' = Append(phase, Empty)
                   /\ spinner' = Append(spinner, [state |-> "started", shown |-> Empty])
                   /\ pc' = "open-" \o which
                   /\ UNCHANGED err
    /\ UNCHANGED <<o, DryRun, Timeout, bootstrapExternalConfigUnSecure,
                   externalClientUnSecure, bootstrapConfig, calls, run>>

(* ---------------------------------------------------------------------- *)
(* helpers.WatchUntil(watchFunc, assertEvent)                              *)
(* ---------------------------------------------------------------------- *)
\* watchFunc is called once; the watch it opens carries the label selector
\* and TimeoutSeconds = the --timeout flag
WatchOpen(which) ==
    /\ pc = "open-" \o which
    /\ \E opened \in BOOLEAN :
        IF opened
        THEN /\ waits' = [waits EXCEPT ![Cur].opened = @ + 1,
                                        ![Cur].open = TRUE,
                                        ![Cur].timeoutSeconds =
                                            TimeoutSecondsOf(Timeout)]
             /\ pc' = "watch-" \o which
             /\ UNCHANGED <<err, spinner>>
        ELSE /\ waits' = [waits EXCEPT
                            ![Cur] = Finished([@ EXCEPT !.opened = @ + 1], ErrNetwork)]
             /\ spinner' = [spinner EXCEPT ![Cur] = Stopped]
             /\ RunWaitReturned(which, ErrNetwork)
    /\ UNCHANGED <<o, DryRun, Timeout, bootstrapExternalConfigUnSecure,
                   externalClientUnSecure, bootstrapConfig, calls, phase, run>>

\* a second passes while the wait blocks on the stream
WatchTick(which) ==
    /\ pc = "watch-" \o which
    /\ waits[Cur].elapsed < waits[Cur].timeoutSeconds
    /\ waits' = [waits EXCEPT ![Cur].elapsed = @ + 1]
    /\ UNCHANGED <<o, DryRun, Timeout, pc, err, bootstrapExternalConfigUnSecure,
                   externalClientUnSecure, bootstrapConfig, calls, phase,
                   spinner, run>>

\* the stream delivers an event before its deadline and the predicate is
\* applied to it: true returns success, false waits for the next event
WatchEvent(which) ==
    /\ pc = "watch-" \o which
    /\ waits[Cur].elapsed < waits[Cur].timeoutSeconds
    /\ waits[Cur].consumed < MaxEvents
    /\ \E event \in Events :
        LET seen == [waits[Cur] EXCEPT !.consumed = @ + 1, !.last = Some(event)]
        IN  /\ phase' = [phase EXCEPT ![Cur] = StorePhase(@, event)]
            /\ IF Predicate(which, event)
               THEN /\ waits' = [waits EXCEPT ![Cur] = Finished(seen, NoErr)]
                    /\ spinner' = [spinner EXCEPT ![Cur] = Stopped]
                    /\ RunWaitReturned(which, NoErr)
               ELSE /\ waits' = [waits EXCEPT ![Cur] = seen]
                    /\ UNCHANGED <<spinner, pc, err>>
    /\ UNCHANGED <<o, DryRun, Timeout, bootstrapExternalConfigUnSecure,
                   externalClientUnSecure, bootstrapConfig, calls, run>>

\* a faulty variant of WatchClose: the stream closes and the wait goes on
\* blocking on it
WatchCloseBlocks(which) ==
    /\ pc = "watch-" \o which
    /\ waits[Cur].ended = "no"
    /\ waits' = [waits EXCEPT ![Cur].ended = "closed"]
    /\ UNCHANGED <<o, DryRun, Timeout, pc, err, bootstrapExternalConfigUnSecure,
                   externalClientUnSecure, bootstrapConfig, calls, phase,
                   spinner, run>>

\* the stream closes (its deadline elapsed, or the server ended it) with the
\* predicate never satisfied
WatchClose(which) ==
    /\ pc = "watch-" \o which
    /\ waits' = [waits EXCEPT
                    ![Cur] = Finished([@ EXCEPT !.ended = "closed"], ErrTimeout)]
    /\ spinner' = [spinner EXCEPT ![Cur] = Stopped]
    /\ RunWaitReturned(which, ErrTimeout)
    /\ UNCHANGED <<o, DryRun, Timeout, bootstrapExternalConfigUnSecure,
                   externalClientUnSecure, bootstrapConfig, calls, phase, run>>

\* the stream itself errors
WatchError(which) ==
    /\ pc = "watch-" \o which
    /\ waits' = [waits EXCEPT
                    ![Cur] = Finished([@ EXCEPT !.ended = "error"], ErrStream)]
    /\ spinner' = [spinner EXCEPT ![Cur] = Stopped]
    /\ RunWaitReturned(which, ErrStream)
    /\ UNCHANGED <<o, DryRun, Timeout, bootstrapExternalConfigUnSecure,
                   externalClientUnSecure, bootstrapConfig, calls, phase, run>>

\* a faulty variant of SpinnerTick: every display loop reads the cell of the
\* first wait
SpinnerTickReadsFirstCell ==
    /\ \E i \in 1..Len(spinner) :
        /\ spinner[i].state = "started"
        /\ spinner[i].shown # phase[1]
        /\ spinner' = [spinner EXCEPT ![i].shown = phase[1]]
    /\ UNCHANGED <<o, DryRun, Timeout, pc, err, bootstrapExternalConfigUnSecure,
                   externalClientUnSecure, bootstrapConfig, calls, waits, phase,
                   run>>


\* the display loop of a started spinner loads the phase cell and shows it
SpinnerTick ==
    /\ \E i \in 1..Len(spinner) :
        /\ spinner[i].state = "started"
        /\ spinner[i].shown # phase[i]
        /\ spinner' = [spinner EXCEPT ![i].shown = phase[i]]
    /\ UNCHANGED <<o, DryRun, Timeout, pc, err, bootstrapExternalConfigUnSecure,
                   externalClientUnSecure, bootstrapConfig, calls, waits, phase,
                   run>>

\* the accept hint is printed and the output is written
RunFinish ==
    /\ pc = "finish"
    /\ \E written \in BOOLEAN :
        /\ run' = [run EXCEPT !.hint = TRUE, !.written = written]
        /\ Return(IF written THEN NoErr ELSE ErrWriteOutput)
    /\ UNCHANGED <<o, DryRun, Timeout, bootstrapExternalConfigUnSecure,
                   externalClientUnSecure, bootstrapConfig, calls, waits, phase,
                   spinner>>

(* ---------------------------------------------------------------------- *)
(* The invocation                                                          *)
(* ---------------------------------------------------------------------- *)
Complete ==
    \/ CompleteInputs
    \/ CompleteVersion
    \/ CompleteReadCA
    \/ CompleteBootstrap
    \/ EscalateLookup
    \/ EscalateDerive
    \/ EscalateCA
    \/ CompleteKlusterlet

Wait(which) ==
    \/ WaitStart(which)
    \/ WatchOpen(which)
    \/ WatchTick(which)
    \/ WatchEvent(which)
    \/ WatchClose(which)
    \/ WatchError(which)

Run ==
    \/ RunClients
    \/ RunApplyDirectly
    \/ RunApplyDeployments
    \/ RunCRDReady
    \/ RunApplyCustomResources
    \/ Wait("operator")
    \/ Wait("agent")
    \/ SpinnerTick
    \/ RunFinish

Next == Complete \/ Validate \/ Run

Spec == Init /\ [][Next]_vars

\* the server ends the stream of the wait `which` once its deadline elapsed
DeadlineClose(which) ==
    /\ waits # <<>>
    /\ waits[Cur].elapsed = waits[Cur].timeoutSeconds
    /\ WatchClose(which)

\* what goes on by itself during a wait: the thread of the command opens the
\* stream it has reached, time passes while the wait blocks, and the stream
\* ends at its deadline
WaitProgress ==
    \E which \in {"operator", "agent"} :
        \/ WatchOpen(which)
        \/ WatchTick(which)
        \/ DeadlineClose(which)

\* the command lines with which run reaches its waits: every required input,
\* --wait and no dry run; the waits read nothing of the escalation, so one way
\* through it is kept (a CA file, no forced lookup)
InitJoinAndWait ==
    /\ Init
    /\ o.token # Empty /\ o.hubAPIServer # Empty
    /\ o.clusterName # Empty /\ o.registry # Empty
    /\ o.caFile # Empty /\ ~o.forceHubInClusterEndpointLookup
    /\ o.wait /\ ~DryRun

FairSpec == InitJoinAndWait /\ [][Next]_vars /\ WF_vars(WaitProgress)

(* ---------------------------------------------------------------------- *)
(* Vocabulary of the properties                                            *)
(* ---------------------------------------------------------------------- *)
\* the calls issued through the insecure bootstrap client (the escalation's)
HubCalls == {i \in 1..Len(calls) : calls[i].client = "externalClientUnSecure"}
HubCallsOf(op) == {i \in HubCalls : calls[i].op = op}

\* a serialized kubeconfig is unset or carries no insecure-skip-tls-verify key
SerializedSecure(kubeconfig) ==
    kubeconfig = <<>> \/ ~HasKey(kubeconfig, "insecure-skip-tls-verify")

\* the CA bytes a reader finds in a serialized kubeconfig
SerializedCA(kubeconfig) ==
    IF HasKey(kubeconfig, "certificate-authority-data")
    THEN KeyOf(kubeconfig, "certificate-authority-data").bytes
    ELSE <<>>

\* createClientcmdapiv1Config has returned a credential to complete
Escalated == ~IsNil(o.HubConfig)

\* the event's object is a pod that carries a condition Ready with status True
ReadyTrue(event) ==
    /\ event.kind = "Pod"
    /\ \E i \in 1..Len(event.conditions) :
        /\ event.conditions[i].Type = "Ready"
        /\ event.conditions[i].Status = "True"

\* the last event the wait consumed carried Ready=True
LastReady(wt) == ~IsNil(wt.last) /\ ReadyTrue(Deref(wt.last))

(* ---------------------------------------------------------------------- *)
(* Properties                                                              *)
(* ---------------------------------------------------------------------- *)
\* C1: the credential that createClientcmdapiv1Config returns verifies TLS
\* (InsecureSkipTLSVerify = false), and in every state o.HubConfig, the
\* serialized o.values.Hub.KubeConfig and every kubeconfig value handed to the
\* applier are unset or such a credential, never the insecure bootstrap one.
C1_EscalatedCredentialVerifiesTLS ==
    /\ Escalated => ~Deref(o.HubConfig).InsecureSkipTLSVerify
    /\ pc \in {"klusterlet", "validate", "run"} => Escalated
    /\ SerializedSecure(o.values.Hub.KubeConfig)
    /\ \A i \in 1..Len(run.applied) : SerializedSecure(run.applied[i].kubeconfig)

C1_Witness ==
    /\ Escalated
    /\ o.values.Hub.KubeConfig # <<>>
    /\ Len(run.applied) > 0
    /\ run.applied[1].kubeconfig = o.values.Hub.KubeConfig

\* C2: with an explicit CA (the content of --ca-file, even an empty one) the
\* credential's CA bytes, stored and serialized, are exactly the explicit CA,
\* and GetCACert is never called on the hub.
C2_ExplicitCAUsedVerbatim ==
    ~IsNil(o.HubCADate) =>
        /\ HubCallsOf("GetCACert") = {}
        /\ Escalated =>
              Deref(o.HubConfig).CertificateAuthorityData = Deref(o.HubCADate)
        /\ o.values.Hub.KubeConfig # <<>> =>
              SerializedCA(o.values.Hub.KubeConfig) = Deref(o.HubCADate)

C2_Witness ==
    /\ ~IsNil(o.HubCADate)
    /\ Deref(o.HubCADate) = <<>>
    /\ Escalated
    /\ o.values.Hub.KubeConfig # <<>>

\* C3: without the forced lookup the escalation never calls GetAPIServer on
\* the hub; with a CA file as well it calls the hub not at all, and without
\* one its only call is the CA fetch.
C3_NoLookupUnlessForced ==
    ~o.forceHubInClusterEndpointLookup =>
        /\ HubCallsOf("GetAPIServer") = {}
        /\ o.caFile # Empty => HubCalls = {}
        /\ o.caFile = Empty => HubCalls = HubCallsOf("GetCACert")

C3_Witness ==
    /\ ~o.forceHubInClusterEndpointLookup
    /\ o.caFile # Empty
    /\ Escalated
    /\ Len(calls) > 0

\* C4: with no CA file and no forced lookup, the escalation fetches the CA
\* exactly once, through the insecure client, and returns a credential with
\* the hub address given on the command line, TLS verification on and the
\* fetched bytes as CA; empty fetched bytes give an empty CA and no error.
C4_FetchedCAScenario ==
    (o.caFile = Empty /\ ~o.forceHubInClusterEndpointLookup) =>
        /\ Cardinality(HubCallsOf("GetCACert")) <= 1
        /\ \A i \in HubCallsOf("GetCACert") :
              /\ calls[i].insecure
              /\ calls[i].answer.err = NoErr =>
                    /\ Escalated
                    /\ Deref(o.HubConfig).CertificateAuthorityData = calls[i].answer.ca
        /\ Escalated =>
              /\ Cardinality(HubCallsOf("GetCACert")) = 1
              /\ Deref(o.HubConfig).Server = o.hubAPIServer
              /\ ~Deref(o.HubConfig).InsecureSkipTLSVerify
        /\ pc = "klusterlet" => err = NoErr

C4_Witness ==
    /\ o.caFile = Empty
    /\ ~o.forceHubInClusterEndpointLookup
    /\ pc = "klusterlet"
    /\ Deref(o.HubConfig).CertificateAuthorityData = <<>>
    /\ Deref(o.HubConfig).Server = ExternalHub

\* C5: a wait returns success at the first event that carries Ready=True: as
\* soon as such an event is consumed the wait has returned nil, and a wait
\* that returned nil did so on the last event it consumed, with the watch
\* stopped and the end of the stream never read, whatever events without
\* Ready=True came before and before the deadline of the stream.
C5_SuccessAtFirstReadyEvent ==
    \A i \in 1..Len(waits) :
        /\ LastReady(waits[i]) => waits[i].outcome = NoErr
        /\ waits[i].outcome = NoErr =>
              /\ LastReady(waits[i])
              /\ ~waits[i].open
              /\ waits[i].ended = "no"
              /\ waits[i].consumed >= 1
              /\ waits[i].elapsed < waits[i].timeoutSeconds
              /\ pc # ("watch-" \o waits[i].which)

C5_Witness ==
    /\ Len(waits) >= 1
    /\ waits[1].outcome = NoErr
    /\ waits[1].consumed = 2
    /\ waits[1].elapsed + 1 < waits[1].timeoutSeconds

\* C6: a stream that closes after N >= 0 events, none of which carries
\* Ready=True, makes the wait and the command return TimeoutError; a wait
\* whose events never carried Ready=True never returns success, and
\* TimeoutError is returned for a closed stream only.
C6_ClosedStreamIsTimeout ==
    \A i \in 1..Len(waits) :
        /\ waits[i].ended = "closed" =>
              /\ ~LastReady(waits[i])
              /\ waits[i].outcome = ErrTimeout
              /\ pc = "done"
              /\ err = ErrTimeout
        /\ ~LastReady(waits[i]) => waits[i].outcome # NoErr
        /\ waits[i].outcome = ErrTimeout => waits[i].ended = "closed"

C6_Witness ==
    /\ Len(waits) = 2
    /\ waits[2].ended = "closed"
    /\ waits[2].consumed = MaxEvents
    /\ err = ErrTimeout

C6_WitnessNoEvent ==
    /\ Len(waits) = 1
    /\ waits[1].ended = "closed"
    /\ waits[1].consumed = 0

\* C7: when a required input is missing, complete returns the error of the
\* first missing one in the order token, hub-server, name, registry, and
\* nothing else happens: no credential or client is built, no call is
\* issued, nothing is serialized or applied.
C7_MissingInputFailsFirst ==
    (o.token = Empty \/ o.hubAPIServer = Empty \/ o.clusterName = Empty
        \/ o.registry = Empty) =>
        /\ pc \in {"complete", "done"}
        /\ pc = "done" =>
              err = IF o.token = Empty THEN ErrTokenMissing
                    ELSE IF o.hubAPIServer = Empty THEN ErrHubServerMissing
                    ELSE IF o.clusterName = Empty THEN ErrNameMissing
                    ELSE ErrRegistryMissing
        /\ calls = <<>>
        /\ IsNil(bootstrapExternalConfigUnSecure)
        /\ IsNil(externalClientUnSecure)
        /\ IsNil(o.HubConfig)
        /\ o.values.Hub.KubeConfig = <<>>
        /\ run.applied = <<>>
        /\ waits = <<>>

C7_Witness ==
    /\ pc = "done"
    /\ o.token # Empty
    /\ o.hubAPIServer = Empty
    /\ o.registry = Empty
    /\ err = ErrHubServerMissing

\* C8: with wait=false, or in dry-run mode, run starts neither wait: no
\* watch is opened and no spinner is started in the invocation.
C8_NoWaitUnlessRequested ==
    (~o.wait \/ DryRun) =>
        /\ waits = <<>>
        /\ spinner = <<>>
        /\ pc \notin {"open-operator", "watch-operator", "open-agent", "watch-agent"}

C8_Witness ==
    /\ o.wait
    /\ DryRun
    /\ pc = "done"
    /\ run.written

\* the forced lookup was answered "not found"
LookupNotFound ==
    \E i \in HubCallsOf("GetAPIServer") : calls[i].answer.err = ErrNotFound

\* C9: after a forced lookup answered "not found" the join continues and the
\* persisted credential still names the hub address of the command line; the
\* address is replaced only by an internal address the lookup resolved.
C9_NotFoundKeepsExternalAddress ==
    o.values.Hub.KubeConfig # <<>> =>
        /\ LookupNotFound =>
              /\ Deref(o.HubConfig).Server = o.hubAPIServer
              /\ KeyOf(o.values.Hub.KubeConfig, "server").str = o.hubAPIServer
        /\ Deref(o.HubConfig).Server # o.hubAPIServer =>
              \E i \in HubCallsOf("GetAPIServer") :
                  /\ calls[i].answer.err = NoErr
                  /\ calls[i].answer.server = Deref(o.HubConfig).Server

\* the escalation's call i failed with an error it does not tolerate
FatalCall(i) ==
    /\ calls[i].answer.err # NoErr
    /\ ~(calls[i].op = "GetAPIServer" /\ calls[i].answer.err = ErrNotFound)

\* C10: in the escalation only a "not found" answer of the lookup is
\* tolerated; any other lookup error and any CA-fetch error is returned by
\* the command at once, with o.HubConfig unset and nothing serialized or
\* applied; a tolerated "not found" is not returned and the escalation goes
\* on.
C10_EscalationErrorsAbort ==
    \A i \in HubCalls :
        /\ FatalCall(i) =>
              /\ i = Len(calls)
              /\ pc = "done"
              /\ err = calls[i].answer.err
              /\ IsNil(o.HubConfig)
              /\ o.values.Hub.KubeConfig = <<>>
              /\ run.applied = <<>>
        /\ (~FatalCall(i) /\ i = Len(calls)) =>
              \/ pc \in {"derive", "ca", "klusterlet"} /\ err = NoErr
              \/ pc = "done" /\ err = ErrClient

C10_Witness ==
    /\ Len(calls) = 2
    /\ calls[1].op = "GetAPIServer"
    /\ calls[1].answer.err = ErrNotFound
    /\ calls[2].op = "GetCACert"
    /\ calls[2].answer.err = ErrNotFound
    /\ pc = "done"
    /\ err = ErrNotFound

\* the preflight check of o.HubConfig has passed
PreflightPassed ==
    \E i \in 1..Len(calls) :
        calls[i].op = "HubKubeconfigCheck" /\ calls[i].answer.err = NoErr

\* C11: the credential's server address leaves the hub address of the command
\* line only after the escalation has returned and the preflight check has
\* passed: every call through the insecure client and every preflight check
\* is made against the command line's hub address, never the internal one,
\* and after a failed preflight check the address is still the hub address.
C11_InternalAddressOnlyAfterPreflight ==
    /\ \A i \in 1..Len(calls) :
          calls[i].client \in {"externalClientUnSecure", "HubConfig"} =>
              /\ calls[i].server = o.hubAPIServer
              /\ calls[i].server # InternalHub
    /\ Escalated =>
          /\ Deref(o.HubConfig).Server # o.hubAPIServer =>
                /\ PreflightPassed
                /\ pc \notin {"klusterlet", "validate"}
                /\ o.forceHubInClusterEndpointLookup
          /\ ~PreflightPassed =>
                /\ Deref(o.HubConfig).Server = o.hubAPIServer
                /\ o.values.Hub.KubeConfig = <<>>
    /\ ~IsNil(bootstrapConfig) => Deref(bootstrapConfig).Server = o.hubAPIServer

C11_Witness ==
    /\ Escalated
    /\ Deref(o.HubConfig).Server = InternalHub
    /\ KeyOf(o.values.Hub.KubeConfig, "server").str = InternalHub
    /\ Len(calls) = 4
    /\ calls[4].op = "HubKubeconfigCheck"
    /\ calls[4].server = ExternalHub

\* C12: the escalation and the two waits run one after the other: a wait is
\* started only after the escalation and validate are over, the first wait is
\* the operator's (label app=klusterlet) and the second the agent's (label
\* app=klusterlet-registration-agent), the agent's is started only after the
\* operator's returned nil, at most one wait is in progress, and after an
\* error of the operator's wait the agent's is never started.
C12_WaitsAreSequential ==
    /\ Len(waits) <= 2
    /\ Len(waits) >= 1 =>
          /\ Escalated
          /\ o.values.Hub.KubeConfig # <<>>
          /\ waits[1].which = "operator"
          /\ waits[1].labelSelector = "app=klusterlet"
          /\ waits[1].outcome \notin {"waiting", NoErr} => Len(waits) = 1
    /\ Len(waits) = 2 =>
          /\ waits[2].which = "agent"
          /\ waits[2].labelSelector = "app=klusterlet-registration-agent"
          /\ waits[1].outcome = NoErr
          /\ ~waits[1].open
    /\ \A i \in 1..Len(waits) :
          (waits[i].outcome = "waiting" \/ waits[i].open) =>
              /\ i = Len(waits)
              /\ pc \in {"open-" \o waits[i].which, "watch-" \o waits[i].which}

C12_Witness ==
    /\ Len(waits) = 2
    /\ waits[2].open
    /\ waits[2].consumed = 1

C12_WitnessOperatorFailed ==
    /\ Len(waits) = 1
    /\ waits[1].outcome = ErrStream
    /\ pc = "done"

\* the seconds the waits started so far have taken
RECURSIVE SecondsWaited(_)
SecondsWaited(n) == IF n = 0 THEN 0 ELSE waits[n].elapsed + SecondsWaited(n - 1)

\* C13: each wait opens its stream with the full --timeout as TimeoutSeconds,
\* whatever time the earlier wait took, and spends at most that long in it,
\* so the two waits together take at most 2 x timeout.
C13_EachWaitGetsFullTimeout ==
    /\ \A i \in 1..Len(waits) :
          /\ waits[i].opened > 0 /\ waits[i].outcome # ErrNetwork =>
                waits[i].timeoutSeconds = Timeout
          /\ waits[i].elapsed <= Timeout
    /\ SecondsWaited(Len(waits)) <= 2 * Timeout

C13_Witness ==
    /\ Len(waits) = 2
    /\ waits[1].elapsed >= 1
    /\ waits[2].timeoutSeconds = Timeout
    /\ waits[2].elapsed = Timeout
    /\ SecondsWaited(2) > Timeout

\* C14: a watch is open only while its own wait is reading it: a wait that
\* has returned, on any path (predicate satisfied, stream closed, stream
\* error, watch never opened), has its watch closed, no watch is open once run
\* is past the wait, and a stream error is what the wait and the command
\* return.
C14_WatchClosedOnEveryReturn ==
    /\ \A i \in 1..Len(waits) :
          /\ waits[i].open =>
                /\ waits[i].outcome = "waiting"
                /\ waits[i].opened = 1
                /\ pc = "watch-" \o waits[i].which
          /\ waits[i].outcome # "waiting" => ~waits[i].open
          /\ waits[i].opened <= 1
          /\ waits[i].ended = "error" <=> waits[i].outcome = ErrStream
          /\ waits[i].outcome = ErrStream =>
                /\ pc = "done"
                /\ err = ErrStream
    /\ pc \in {"wait-agent", "finish", "done"} =>
          \A i \in 1..Len(waits) : ~waits[i].open

C14_Witness ==
    /\ Len(waits) = 2
    /\ waits[1].opened = 1
    /\ waits[1].outcome = NoErr
    /\ waits[2].opened = 1
    /\ waits[2].ended = "error"
    /\ waits[2].consumed = 1
    /\ ~waits[1].open /\ ~waits[2].open
    /\ err = ErrStream

C14_WitnessClosed ==
    /\ Len(waits) = 1
    /\ waits[1].opened = 1
    /\ waits[1].ended = "closed"
    /\ ~waits[1].open

\* the last event the wait consumed is not a pod
LastNotPod(wt) == ~IsNil(wt.last) /\ Deref(wt.last).kind # "Pod"

\* C15: an event whose object is not a pod is skipped: the wait does not
\* return on it (neither nil nor an error), its watch stays open until the
\* stream ends, the phase cell never holds anything but the empty text or a
\* pod's status, and while the stream lasts a next event with Ready=True can
\* still be consumed and makes the wait return nil.
C15_NonPodEventSkipped ==
    \A i \in 1..Len(waits) :
        /\ \/ phase[i] = Empty
           \/ \E ph \in PodPhases :
                 phase[i] = GetSpinnerPodStatus([kind |-> "Pod", phase |-> ph,
                                                 conditions |-> <<>>])
        /\ LastNotPod(waits[i]) =>
              /\ waits[i].outcome \in {"waiting", ErrTimeout, ErrStream}
              /\ waits[i].consumed = 1 => phase[i] = Empty
              /\ waits[i].ended = "no" =>
                    /\ waits[i].outcome = "waiting"
                    /\ waits[i].open
                    /\ i = Cur
                    /\ pc = "watch-" \o waits[i].which
                    /\ err = NoErr
              /\ (/\ waits[i].ended = "no"
                  /\ waits[i].consumed < MaxEvents
                  /\ waits[i].elapsed < waits[i].timeoutSeconds) =>
                    ENABLED (/\ WatchEvent(waits[i].which)
                             /\ ReadyTrue(Deref(waits'[i].last))
                             /\ waits'[i].outcome = NoErr)

C15_Witness ==
    /\ Len(waits) = 2
    /\ waits[2].consumed = 1
    /\ LastNotPod(waits[2])
    /\ waits[2].outcome = "waiting"
    /\ waits[2].open
    /\ phase[2] = Empty

\* C16: each predicate is a function of the event alone: for every event a
\* wait that is about to open its stream may receive, its predicate is true
\* exactly for a pod that carries a condition Ready with status True; the
\* predicate evaluated again on the last event a wait consumed gives that
\* same answer, and the wait has returned nil exactly when that event is such
\* a pod, whatever events it consumed before.
C16_PredicateIsSelfContained ==
    \A i \in 1..Len(waits) :
        /\ pc = "open-" \o waits[i].which =>
              \A e \in Events : Predicate(waits[i].which, e) <=> ReadyTrue(e)
        /\ ~IsNil(waits[i].last) =>
              /\ Predicate(waits[i].which, Deref(waits[i].last))
                    <=> ReadyTrue(Deref(waits[i].last))
              /\ waits[i].outcome = NoErr <=> ReadyTrue(Deref(waits[i].last))

C16_Witness ==
    /\ Len(waits) = 1
    /\ waits[1].consumed = 2
    /\ waits[1].outcome = "waiting"
    /\ Deref(waits[1].last).kind = "Pod"
    /\ Deref(waits[1].last).phase = "Running"
    /\ spinner[1].shown = "Running"
    /\ ~ReadyTrue(Deref(waits[1].last))

\* the last event the wait consumed is a pod
LastPod(wt) == ~IsNil(wt.last) /\ Deref(wt.last).kind = "Pod"

\* C17: the phase cell of a wait holds the empty text until the wait has
\* consumed an event, and after a pod event it holds the status of that pod,
\* whatever it held before; what the cell holds does not decide the wait: with
\* any text in the cell the wait has returned nil exactly when the pod of the
\* last event carries Ready=True.
C17_IndicatorHoldsLastPodStatus ==
    /\ Len(phase) = Len(waits)
    /\ \A i \in 1..Len(waits) :
          /\ waits[i].consumed = 0 => phase[i] = Empty
          /\ LastPod(waits[i]) =>
                /\ phase[i] = GetSpinnerPodStatus(Deref(waits[i].last))
                /\ \A ph \in PodPhases :
                      phase[i] = ph =>
                          (waits[i].outcome = NoErr <=> LastReady(waits[i]))

C17_Witness ==
    /\ Len(waits) = 1
    /\ waits[1].consumed = 2
    /\ LastPod(waits[1])
    /\ phase[1] = "Pending"
    /\ spinner[1].shown = "Running"
    /\ waits[1].outcome = "waiting"

C17_WitnessReadyWhilePending ==
    /\ Len(waits) = 1
    /\ phase[1] = "Pending"
    /\ waits[1].outcome = NoErr

\* C18: each wait has a phase cell and a display loop of its own: the cell of
\* a wait is empty until that wait consumes an event, whatever the cell of the
\* earlier wait holds, the cell of a wait that returned nil still holds the
\* status of that wait's last pod, a display loop shows only what its own
\* wait's cell held, and it runs exactly while its wait has not returned.
C18_NoSharedStateAcrossWaits ==
    /\ Len(spinner) = Len(waits)
    /\ Len(phase) = Len(spinner)
    /\ \A i \in 1..Len(waits) :
          /\ spinner[i].state = "started" <=> waits[i].outcome = "waiting"
          /\ spinner[i].state \in {"started", "stopped"}
          /\ waits[i].consumed = 0 =>
                /\ phase[i] = Empty
                /\ spinner[i].shown = Empty
          /\ waits[i].consumed <= 1 => spinner[i].shown \in {Empty, phase[i]}
          /\ waits[i].outcome = NoErr =>
                phase[i] = GetSpinnerPodStatus(Deref(waits[i].last))
    /\ pc = "open-agent" => phase[2] = Empty /\ spinner[2].shown = Empty

C18_Witness ==
    /\ Len(waits) = 2
    /\ phase[1] = "Running"
    /\ spinner[1].state = "stopped"
    /\ waits[2].open
    /\ waits[2].consumed = 0
    /\ phase[2] = Empty
    /\ spinner[2].state = "started"

C18_WitnessOwnCell ==
    /\ Len(waits) = 2
    /\ phase[1] = "Running"
    /\ phase[2] = "Pending"
    /\ spinner[2].shown = "Pending"

\* the stages run has applied, in their order
StagesApplied == [i \in 1..Len(run.applied) |-> run.applied[i].stage]

\* C19: when a wait has returned an error, run has returned that error and
\* nothing else has happened since: the three stages applied before the wait
\* are still recorded as applied, in their order and not as a dry run, the
\* hint is not printed and no output is written.
C19_WaitErrorKeepsAppliedManifests ==
    \A i \in 1..Len(waits) :
        waits[i].outcome \notin {"waiting", NoErr} =>
            /\ i = Len(waits)
            /\ waits[i].outcome \in {ErrTimeout, ErrStream, ErrNetwork}
            /\ pc = "done"
            /\ err = waits[i].outcome
            /\ StagesApplied =
                  <<"ApplyDirectly", "ApplyDeployments", "ApplyCustomResources">>
            /\ run.output = StagesApplied
            /\ \A k \in 1..Len(run.applied) :
                  /\ ~run.applied[k].dryRun
                  /\ run.applied[k].kubeconfig = o.values.Hub.KubeConfig
            /\ ~run.hint
            /\ ~run.written

C19_Witness ==
    /\ Len(waits) = 2
    /\ waits[2].outcome = ErrStream
    /\ waits[2].consumed = 1
    /\ Len(run.applied) = 3
    /\ pc = "done"
    /\ err = ErrStream

C19_WitnessTimeout ==
    /\ Len(waits) = 1
    /\ waits[1].outcome = ErrTimeout
    /\ waits[1].elapsed = Timeout
    /\ Len(run.applied) = 3

\* the CA of the escalation: the content of --ca-file when it was read, else
\* what the hub answered to GetCACert
SuppliedCA ==
    IF ~IsNil(o.HubCADate) THEN {Deref(o.HubCADate)}
    ELSE {calls[i].answer.ca : i \in HubCallsOf("GetCACert")}

\* C20 as stated: a credential with TLS verification on never has an empty CA
C20_TLSVerifyHasNonEmptyCA ==
    (Escalated /\ ~Deref(o.HubConfig).InsecureSkipTLSVerify) =>
        Deref(o.HubConfig).CertificateAuthorityData # <<>>

\* C20: a credential with TLS verification on carries exactly the CA that was
\* supplied, the content of --ca-file or else the bytes fetched from the hub,
\* and this CA may be empty: a CA fetch that answers without an error, and a
\* CA file that was read, always give the credential, and the escalation
\* fails only with the error of a client that cannot be built or of a call.
C20_TLSVerifyCarriesSuppliedCA ==
    /\ Escalated =>
          /\ ~Deref(o.HubConfig).InsecureSkipTLSVerify
          /\ SuppliedCA = {Deref(o.HubConfig).CertificateAuthorityData}
    /\ \A i \in HubCallsOf("GetCACert") :
          calls[i].answer.err = NoErr => Escalated
    /\ (~IsNil(o.HubCADate) /\ ~Escalated) =>
          \/ pc \in {"bootstrap", "lookup", "derive", "ca"}
          \/ /\ pc = "done"
             /\ \/ err = ErrClient
                \/ /\ calls # <<>>
                   /\ FatalCall(Len(calls))
                   /\ err = calls[Len(calls)].answer.err

C20_Witness ==
    /\ Escalated
    /\ IsNil(o.HubCADate)
    /\ o.forceHubInClusterEndpointLookup
    /\ ~Deref(o.HubConfig).InsecureSkipTLSVerify
    /\ Deref(o.HubConfig).CertificateAuthorityData = <<>>
    /\ ~HasKey(o.values.Hub.KubeConfig, "certificate-authority-data")
    /\ pc = "done"
    /\ err = NoErr

\* the command is inside the wait `which`
InWait(which) == pc \in {"open-" \o which, "watch-" \o which}

\* C21: each wait terminates: its stream is opened at most once, a wait whose
\* stream has ended is not blocked on it any more, and, time passing and the
\* stream ending at its deadline, a wait that has been started eventually
\* returns, whatever events the stream delivers.
C21_EachWaitTerminates ==
    /\ [](\A i \in 1..Len(waits) :
            /\ waits[i].opened <= 1
            /\ waits[i].ended # "no" =>
                  /\ waits[i].outcome \in {ErrTimeout, ErrStream}
                  /\ ~InWait(waits[i].which))
    /\ (InWait("operator") \/ InWait("agent"))
          ~> ~(InWait("operator") \/ InWait("agent"))

C21_Witness ==
    /\ Len(waits) = 2
    /\ waits[2].opened = 1
    /\ waits[2].ended = "closed"
    /\ waits[2].elapsed = waits[2].timeoutSeconds
    /\ waits[2].consumed = MaxEvents
    /\ ~InWait("agent")
    /\ pc = "done"

\* the apply stages of run, in the order of its code
ApplyStages == <<"ApplyDirectly", "ApplyDeployments", "ApplyCustomResources">>

\* every wait started so far has returned nil
WaitsSucceeded == \A i \in 1..Len(waits) : waits[i].outcome = NoErr

C22_WitnessAllStages ==
    /\ pc = "done"
    /\ err = NoErr
    /\ Len(run.applied) = 3
    /\ Len(waits) = 2
    /\ run.hint
    /\ run.written

C22_WitnessApplyFailed ==
    /\ pc = "done"
    /\ err = ErrApply
    /\ Len(run.applied) = 1

\* C23: the insecure bootstrap credential is never changed once built: during
\* the escalation and after it has returned, with a credential or an error,
\* and after setKubeconfig has rewritten the secure credential, the insecure
\* one still skips TLS verification, names the hub address of the command
\* line and carries the token and no CA, and it is not the secure credential.
C23_InsecureCredentialUnchanged ==
    ~IsNil(bootstrapExternalConfigUnSecure) =>
        /\ Deref(bootstrapExternalConfigUnSecure).InsecureSkipTLSVerify
        /\ Deref(bootstrapExternalConfigUnSecure).Server = o.hubAPIServer
        /\ Deref(bootstrapExternalConfigUnSecure).CertificateAuthorityData = <<>>
        /\ Deref(bootstrapExternalConfigUnSecure).Token = o.token
        /\ Deref(bootstrapExternalConfigUnSecure) = createExternalBootstrapConfig(o)
        /\ ~IsNil(bootstrapConfig) =>
              Deref(bootstrapConfig) # Deref(bootstrapExternalConfigUnSecure)
        /\ Escalated => Deref(o.HubConfig) # Deref(bootstrapExternalConfigUnSecure)

C23_Witness ==
    /\ Escalated
    /\ pc = "run"
    /\ Deref(o.HubConfig).CertificateAuthorityData # <<>>
    /\ Deref(o.HubConfig).Server = InternalHub
    /\ ~Deref(o.HubConfig).InsecureSkipTLSVerify
    /\ Deref(bootstrapExternalConfigUnSecure).InsecureSkipTLSVerify
    /\ Deref(bootstrapExternalConfigUnSecure).Server = ExternalHub

C23_WitnessError ==
    /\ pc = "done"
    /\ err = ErrNetwork
    /\ ~IsNil(bootstrapConfig)
    /\ IsNil(o.HubConfig)
    /\ Deref(bootstrapExternalConfigUnSecure).InsecureSkipTLSVerify
====
